---------------------------- MODULE Spec2Model ----------------------------
(***************************************************************************)
(* A model of ai-themer: palette construction and role assignment          *)
(* (core/color_types.py), colour extraction with quality scoring           *)
(* (core/color_extractor.py) and theme application with backup, reload     *)
(* and restore (core/theme_applier.py).                                    *)
(*                                                                         *)
(* Floating point quantities are fixed point integers:                     *)
(*   linearised channel   x 10^4   (GammaTable)                            *)
(*   relative luminance   x 10^6   (Luminance)                             *)
(*   contrast ratio       x 10^3   (ContrastRatio)                         *)
(*   HSL saturation       exact fraction SatNum / SatDen                   *)
(*   CIELab coordinates   x 10     (Lab)                                   *)
(*   scores               x 10^4   (ScoreOne is 1.0)                       *)
(***************************************************************************)
EXTENDS Integers, Sequences, FiniteSets, TLC

(***************************************************************************)
(* Bounds of the model.                                                    *)
(***************************************************************************)
\* longest list of RGB tuples handed to from_colors / ColorPalette
MaxLen == 5

(***************************************************************************)
(* Small helpers.                                                          *)
(***************************************************************************)
Min2(a, b) == IF a <= b THEN a ELSE b

Max2(a, b) == IF a >= b THEN a ELSE b

RECURSIVE SqrtSearch(_, _, _)
SqrtSearch(lo, hi, n) ==
    IF lo >= hi THEN lo
    ELSE LET mid == (lo + hi + 1) \div 2
         IN  IF mid * mid <= n THEN SqrtSearch(mid, hi, n)
                               ELSE SqrtSearch(lo, mid - 1, n)

\* floor of the square root of n, 0 <= n < 2^31
ISqrt(n) == SqrtSearch(0, 46340, n)

RECURSIVE CbrtSearch(_, _, _)
CbrtSearch(lo, hi, n) ==
    IF lo >= hi THEN lo
    ELSE LET mid == (lo + hi + 1) \div 2
         IN  IF mid * mid * mid <= n THEN CbrtSearch(mid, hi, n)
                                     ELSE CbrtSearch(lo, mid - 1, n)

\* floor of the cube root of n, 0 <= n < 2^31
ICbrt(n) == CbrtSearch(0, 1290, n)

RECURSIVE SumSeq(_)
SumSeq(s) == IF s = << >> THEN 0 ELSE Head(s) + SumSeq(Tail(s))

RECURSIVE SumSquares(_)
SumSquares(s) == IF s = << >> THEN 0 ELSE Head(s) * Head(s) + SumSquares(Tail(s))

RECURSIVE MaxSeq(_)
MaxSeq(s) == IF Len(s) = 1 THEN Head(s) ELSE Max2(Head(s), MaxSeq(Tail(s)))

RECURSIVE MinSeq(_)
MinSeq(s) == IF Len(s) = 1 THEN Head(s) ELSE Min2(Head(s), MinSeq(Tail(s)))

\* numpy.std (population standard deviation) of a non-empty sequence,
\* in the unit of its elements
StdDev(s) ==
    LET n == Len(s)
    IN  ISqrt(n * SumSquares(s) - SumSeq(s) * SumSeq(s)) \div n

(***************************************************************************)
(* ColorRole and SemanticColor (color_types.py).                           *)
(***************************************************************************)
ColorRole == {"primary", "secondary", "accent", "background", "surface",
              "text", "text_secondary", "border", "warning", "error"}

\* 1.0 of a score or a confidence
ScoreOne == 10000

Clamp255(x) == Max2(0, Min2(255, x))

\* SemanticColor(r, g, b, role, confidence, alpha) after __post_init__, which
\* clamps the channels and alpha to 0 .. 255 and the confidence to 0.0 .. 1.0
NewSemanticColor(r, g, b, role, confidence, alpha) ==
    [r |-> Clamp255(r), g |-> Clamp255(g), b |-> Clamp255(b), role |-> role,
     confidence |-> Max2(0, Min2(ScoreOne, confidence)), alpha |-> Clamp255(alpha)]

\* SemanticColor(r, g, b, role): confidence 1.0 and alpha 255 by default
SemanticColor(r, g, b, role) == NewSemanticColor(r, g, b, role, ScoreOne, 255)

\* SemanticColor.from_rgb: the role defaults to PRIMARY
FromRgb(rgb) == SemanticColor(rgb[1], rgb[2], rgb[3], "primary")

\* gamma_correct(c / 255) x 10^4 for c = 0 .. 255
GammaTable ==
<< 0, 3, 6, 9, 12, 15, 18, 21, 24, 27, 30, 33, 37, 40, 44, 48,
   52, 56, 60, 65, 70, 75, 80, 86, 91, 97, 103, 110, 116, 123, 130, 137,
   144, 152, 160, 168, 176, 185, 194, 203, 212, 222, 232, 242, 252, 262, 273, 284,
   296, 307, 319, 331, 343, 356, 369, 382, 395, 409, 423, 437, 452, 467, 482, 497,
   513, 529, 545, 561, 578, 595, 612, 630, 648, 666, 685, 704, 723, 742, 762, 782,
   802, 823, 844, 865, 887, 908, 931, 953, 976, 999, 1022, 1046, 1070, 1095, 1119, 1144,
   1170, 1195, 1221, 1248, 1274, 1301, 1329, 1356, 1384, 1413, 1441, 1470, 1500, 1529, 1559, 1590,
   1620, 1651, 1683, 1714, 1746, 1779, 1812, 1845, 1878, 1912, 1946, 1981, 2016, 2051, 2086, 2122,
   2159, 2195, 2232, 2270, 2307, 2346, 2384, 2423, 2462, 2502, 2542, 2582, 2623, 2664, 2705, 2747,
   2789, 2831, 2874, 2918, 2961, 3005, 3050, 3095, 3140, 3185, 3231, 3278, 3325, 3372, 3419, 3467,
   3515, 3564, 3613, 3663, 3712, 3763, 3813, 3864, 3916, 3968, 4020, 4072, 4125, 4179, 4233, 4287,
   4342, 4397, 4452, 4508, 4564, 4621, 4678, 4735, 4793, 4851, 4910, 4969, 5029, 5089, 5149, 5210,
   5271, 5333, 5395, 5457, 5520, 5583, 5647, 5711, 5776, 5841, 5906, 5972, 6038, 6105, 6172, 6240,
   6308, 6376, 6445, 6514, 6584, 6654, 6724, 6795, 6867, 6939, 7011, 7084, 7157, 7231, 7305, 7379,
   7454, 7529, 7605, 7682, 7758, 7835, 7913, 7991, 8070, 8148, 8228, 8308, 8388, 8469, 8550, 8632,
   8714, 8796, 8879, 8963, 9047, 9131, 9216, 9301, 9387, 9473, 9560, 9647, 9734, 9823, 9911, 10000 >>

GammaCorrect(c) == GammaTable[c + 1]

\* SemanticColor.luminance: WCAG relative luminance x 10^6
Luminance(c) ==
    (2126 * GammaCorrect(c.r) + 7152 * GammaCorrect(c.g)
        + 722 * GammaCorrect(c.b)) \div 100

\* the ratio of the first luminance to the second, whichever is lighter
RatioOfOrdered(l1, l2) == ((l1 + 50000) * 1000) \div (l2 + 50000)

\* SemanticColor.contrast_ratio x 10^3
\* (lighter + 0.05) / (darker + 0.05) of two luminances, x 10^3
RatioOf(l1, l2) == ((Max2(l1, l2) + 50000) * 1000) \div (Min2(l1, l2) + 50000)

ContrastRatio(a, b) == RatioOf(Luminance(a), Luminance(b))

MaxC(c) == Max2(c.r, Max2(c.g, c.b))

MinC(c) == Min2(c.r, Min2(c.g, c.b))

\* colorsys.rgb_to_hls: the saturation is SatNum / SatDen, in 0 .. 1
SatNum(c) == MaxC(c) - MinC(c)

SatDen(c) ==
    IF MaxC(c) = MinC(c) THEN 1
    ELSE IF MaxC(c) + MinC(c) <= 255 THEN MaxC(c) + MinC(c)
    ELSE 510 - MaxC(c) - MinC(c)

\* hsl[1] of one colour against another's
SatLess(a, b) == SatNum(a) * SatDen(b) < SatNum(b) * SatDen(a)

\* hsl[1] x 10 (the property's saturation runs 0 .. 100)
Sat10(c) == (1000 * SatNum(c)) \div SatDen(c)

\* colorsys.rgb_to_hls: the hue in sixths of a turn is HueN / (max - min)
HueN(c) ==
    LET rng == MaxC(c) - MinC(c)
        raw == IF c.r = MaxC(c) THEN c.g - c.b
               ELSE IF c.g = MaxC(c) THEN 2 * rng + c.b - c.r
               ELSE 4 * rng + c.r - c.g
    IN  IF rng = 0 THEN 0 ELSE raw % (6 * rng)

\* colorsys._v(m1, m2, hue) x 255, truncated by int(); m1n and m2n are m1 and
\* m2 over 1020 * den, hn is the hue in sixths over rng
HlsChannel(m1n, m2n, hn, rng, den) ==
    LET h == hn % (6 * rng)
        fn == IF h < rng THEN h
              ELSE IF h < 3 * rng THEN rng
              ELSE IF h < 4 * rng THEN 4 * rng - h
              ELSE 0
    IN  (m1n * rng + (m2n - m1n) * fn) \div (4 * den * rng)

\* SemanticColor.lighten(0.05): the HSL lightness raised by 5 of 100 and
\* converted back with colorsys.hls_to_rgb; the role and confidence are kept
Lighten5(c) ==
    LET sumc == MaxC(c) + MinC(c)
        rng == MaxC(c) - MinC(c)
        den == SatDen(c)
        l2 == Min2(1020, 2 * sumc + 51)
        m2n == IF l2 <= 510 THEN l2 * (den + rng)
               ELSE l2 * den + 1020 * rng - l2 * rng
        m1n == 2 * l2 * den - m2n
        hn == HueN(c)
    IN  IF rng = 0
        THEN [c EXCEPT !.r = Clamp255(l2 \div 4), !.g = Clamp255(l2 \div 4),
                       !.b = Clamp255(l2 \div 4), !.alpha = 255]
        ELSE [c EXCEPT !.r = Clamp255(HlsChannel(m1n, m2n, hn + 2 * rng, rng, den)),
                       !.g = Clamp255(HlsChannel(m1n, m2n, hn, rng, den)),
                       !.b = Clamp255(HlsChannel(m1n, m2n, hn + 4 * rng, rng, den)),
                       !.alpha = 255]

\* the transfer function of CIELab applied to t x 10^5, result x 10^3
LabF(t5) ==
    IF t5 > 885 THEN ICbrt(t5 * 10000)
    ELSE (7787 * t5) \div 100000 + 138

\* colorspacious.cspace_convert(rgb_float, "sRGB1", "CIELab") x 10
\* CIELab x 10 from f(X / Xn), f(Y / Yn), f(Z / Zn) x 10^3
LabOfF(fx, fy, fz) ==
    << (116 * fy - 16000) \div 100, (500 * (fx - fy)) \div 100,
       (200 * (fy - fz)) \div 100 >>

\* CIELab x 10 of linear RGB x 10^4, through XYZ under D65
LabOfLinear(lr, lg, lb) ==
    LabOfF(LabF((((4124 * lr + 3576 * lg + 1805 * lb) \div 1000) * 10000) \div 9505),
           LabF((2126 * lr + 7152 * lg + 722 * lb) \div 1000),
           LabF((((193 * lr + 1192 * lg + 9505 * lb) \div 1000) * 10000) \div 10888))

Lab(c) == LabOfLinear(GammaCorrect(c.r), GammaCorrect(c.g), GammaCorrect(c.b))

\* Euclidean distance of two colours in CIELab x 10
Distance3(p, q) ==
    ISqrt((p[1] - q[1]) * (p[1] - q[1]) + (p[2] - q[2]) * (p[2] - q[2])
          + (p[3] - q[3]) * (p[3] - q[3]))

LabDistance(a, b) == Distance3(Lab(a), Lab(b))


(***************************************************************************)
(* ColorPalette (color_types.py).  A palette is a record                   *)
(*   colors: a function from the roles present to their SemanticColor,     *)
(*   source_image, extraction_method, quality_score.                       *)
(***************************************************************************)
\* Python's None where a record is expected, and where a string or a number is
None == [tag |-> "None"]

NoneStr == "None"

NoScore == 0 - 1

\* what an operation that raised returns in the model
Raised == [tag |-> "raised"]

\* ColorPalette.__post_init__
RequiredRoles == {"primary", "background", "text"}

\* a constructor whose __post_init__ checks nothing
NewPaletteUnchecked(colorMap, source, method) ==
    [colors |-> colorMap, source_image |-> source,
     extraction_method |-> method, quality_score |-> NoScore]

\* ColorPalette(colors, ...): __post_init__ raises ValueError when a required
\* role is missing
NewPalette(colorMap, source, method) ==
    IF RequiredRoles \ DOMAIN colorMap # {} THEN Raised
    ELSE [colors |-> colorMap, source_image |-> source,
          extraction_method |-> method, quality_score |-> NoScore]

\* dataclass equality of two SemanticColor objects: every field
ColorEq(a, b) ==
    /\ a.r = b.r /\ a.g = b.g /\ a.b = b.b
    /\ a.role = b.role /\ a.confidence = b.confidence /\ a.alpha = b.alpha

\* one step of list.sort(key=luminance): c goes behind every entry that is
\* not lighter than it (the sort is stable)
RECURSIVE InsertByLuminance(_, _)
InsertByLuminance(sorted, c) ==
    IF sorted = << >> THEN << c >>
    ELSE IF Luminance(sorted[Len(sorted)]) <= Luminance(c)
         THEN Append(sorted, c)
         ELSE Append(InsertByLuminance(SubSeq(sorted, 1, Len(sorted) - 1), c),
                     sorted[Len(sorted)])

RECURSIVE SortByLuminance(_)
SortByLuminance(s) ==
    IF s = << >> THEN << >>
    ELSE InsertByLuminance(SortByLuminance(SubSeq(s, 1, Len(s) - 1)), s[Len(s)])

\* the loop without reversed(): the first entry, from the darkest up
TextSearchAscending(sem, bg, i) ==
    IF \E k \in 1 .. i : ContrastRatio(sem[k], bg) >= 3000
    THEN CHOOSE k \in 1 .. i :
            /\ ContrastRatio(sem[k], bg) >= 3000
            /\ \A j \in 1 .. (k - 1) : ContrastRatio(sem[j], bg) < 3000
    ELSE 0

\* the loop "for color in reversed(semantic_colors)": the index of the first
\* entry, from the lightest down, whose contrast with bg is at least 3.0;
\* 0 when the loop ends without a break
RECURSIVE TextSearch(_, _, _)
TextSearch(sem, bg, i) ==
    IF i = 0 THEN 0
    ELSE IF ContrastRatio(sem[i], bg) >= 3000 THEN i
    ELSE TextSearch(sem, bg, i - 1)

\* middle_colors taken to be the whole list
MiddleIndicesAll(n) == 1 .. n

\* the indices of middle_colors: semantic_colors[1:-1], or [1:2] for a list
\* of at most two
MiddleIndices(n) == IF n > 2 THEN 2 .. (n - 1) ELSE {2} \cap (1 .. n)

\* max(middle_colors, key=saturation): the first of the most saturated
MostSaturated(sem, middle) ==
    CHOOSE i \in middle :
        /\ \A j \in middle : ~SatLess(sem[i], sem[j])
        /\ \A j \in middle : j < i => SatLess(sem[j], sem[i])

\* [c for c in semantic_colors if c not in color_map.values()], as indices
RECURSIVE RemainingFrom(_, _, _)
RemainingFrom(sem, taken, i) ==
    IF i > Len(sem) THEN << >>
    ELSE IF \E t \in taken : ColorEq(sem[t], sem[i])
         THEN RemainingFrom(sem, taken, i + 1)
         ELSE << i >> \o RemainingFrom(sem, taken, i + 1)

\* f with key k set to v
Extend(f, k, v) == [x \in DOMAIN f \cup {k} |-> IF x = k THEN v ELSE f[x]]

\* color_map[role] = semantic_colors[i]; color_map[role].role = role.
\* st.sem is the sorted list, st.idx the position of each role's entry.
SetRole(st, role, i) ==
    [sem |-> [st.sem EXCEPT ![i].role = role], idx |-> Extend(st.idx, role, i)]

\* semantic_colors after the sort, color_map still empty
SortedColors(colors) ==
    [sem |-> SortByLuminance([i \in 1 .. Len(colors) |-> FromRgb(colors[i])]),
     idx |-> << >>]

\* Background: the darkest colour
WithBackground(st) == SetRole(st, "background", 1)

\* the entry the reversed loop breaks at, or the lightest when it never does
TextOrLightest(found, n) == IF found # 0 THEN found ELSE n

TextIndex(sem) == TextOrLightest(TextSearch(sem, sem[1], Len(sem)), Len(sem))

\* Text: the lightest colour of contrast 3.0 with the background
WithText(st) == SetRole(st, "text", TextIndex(st.sem))

PrimaryIndex(sem) ==
    IF MiddleIndices(Len(sem)) # {}
    THEN MostSaturated(sem, MiddleIndices(Len(sem)))
    ELSE Len(sem) \div 2 + 1

\* Primary: the most saturated of the middle colours
WithPrimary(st) == SetRole(st, "primary", PrimaryIndex(st.sem))

\* remaining_colors, as positions in the sorted list
RemainingColors(st) ==
    RemainingFrom(st.sem, {st.idx[role] : role \in DOMAIN st.idx}, 1)

WithSecondary(st, remaining) ==
    IF Len(remaining) > 0 THEN SetRole(st, "secondary", remaining[1]) ELSE st

WithAccent(st, remaining) ==
    IF Len(remaining) > 1 THEN SetRole(st, "accent", remaining[2]) ELSE st

\* Secondary and accent: the first two colours that equal no colour of the map
WithOptional(st, remaining) == WithAccent(WithSecondary(st, remaining), remaining)

WithRemaining(st) == WithOptional(st, RemainingColors(st))

\* The role assignment of ColorPalette.from_colors for a list of at least
\* three colours: the sorted list with the roles written into its entries
\* (sem), and the position in it of each role given to an entry (idx).
AssignRoles(colors) ==
    WithRemaining(WithPrimary(WithText(WithBackground(SortedColors(colors)))))

\* color_map: each role's entry of the sorted list
ColorMapOf(a) == [role \in DOMAIN a.idx |-> a.sem[a.idx[role]]]

\* Surface: the background lightened by 0.05, unless the map has a surface
WithSurface(colorMap) ==
    IF "surface" \in DOMAIN colorMap THEN colorMap
    ELSE Extend(colorMap, "surface",
                [Lighten5(colorMap["background"]) EXCEPT !.role = "surface"])

\* ColorPalette.from_colors(colors, source_image)
FromColors(colors, source) ==
    IF Len(colors) < 3 THEN Raised
    ELSE NewPalette(WithSurface(ColorMapOf(AssignRoles(colors))), source,
                    "automatic_assignment")

(***************************************************************************)
(* The quality score (color_extractor.py).                                 *)
(***************************************************************************)
\* dict order of palette.colors: the order from_colors inserts the roles
RoleOrder == << "background", "text", "primary", "secondary", "accent",
                "surface", "text_secondary", "border", "warning", "error" >>

RECURSIVE ValuesFrom(_, _)
ValuesFrom(colorMap, i) ==
    IF i > Len(RoleOrder) THEN << >>
    ELSE IF RoleOrder[i] \in DOMAIN colorMap
         THEN << colorMap[RoleOrder[i]] >> \o ValuesFrom(colorMap, i + 1)
         ELSE ValuesFrom(colorMap, i + 1)

\* list(palette.colors.values())
PaletteValues(p) == ValuesFrom(p.colors, 1)

\* ColorPalette.validate_contrast()['text_on_background'], x 10^3
TextContrast(p) == ContrastRatio(p.colors["text"], p.colors["background"])

\* the sum of the CIELab distances of every pair colors[i], colors[j], i < j
RECURSIVE PairDistances(_, _, _)
PairDistances(cs, i, j) ==
    IF i >= Len(cs) THEN 0
    ELSE IF j > Len(cs) THEN PairDistances(cs, i + 1, i + 2)
    ELSE LabDistance(cs[i], cs[j]) + PairDistances(cs, i, j + 1)

\* _calculate_color_diversity before its min(1.0, ...): avg_distance / 100
DiversityRaw(cs) ==
    LET comparisons == (Len(cs) * (Len(cs) - 1)) \div 2
        avg == IF comparisons > 0 THEN PairDistances(cs, 1, 2) \div comparisons ELSE 0
    IN  (avg * ScoreOne) \div 1000

\* the diversity without its min(1.0, ...)
ColorDiversityUnclamped(cs) == IF Len(cs) < 2 THEN 0 ELSE DiversityRaw(cs)

\* _calculate_color_diversity
ColorDiversity(cs) ==
    IF Len(cs) < 2 THEN 0 ELSE Min2(ScoreOne, DiversityRaw(cs))

\* _calculate_saturation_balance
SaturationBalance(cs) ==
    IF cs = << >> THEN 0
    ELSE LET saturations == [i \in 1 .. Len(cs) |-> Sat10(cs[i])]
         IN  Min2(ScoreOne, (StdDev(saturations) * ScoreOne) \div 500)

\* _calculate_luminance_distribution
LuminanceDistribution(cs) ==
    IF cs = << >> THEN 0
    ELSE LET luminances == [i \in 1 .. Len(cs) |-> Luminance(cs[i]) \div 1000]
             range_score == ((MaxSeq(luminances) - MinSeq(luminances)) * ScoreOne) \div 1000
             std_score == Min2(ScoreOne, (2 * StdDev(luminances) * ScoreOne) \div 1000)
         IN  (range_score + std_score) \div 2

\* the contrast component: min(1.0, text_contrast / 4.5)
ContrastScore(p) == Min2(ScoreOne, (TextContrast(p) * ScoreOne) \div 4500)

\* numpy.mean of the confidences
ConfidenceScore(cs) ==
    SumSeq([i \in 1 .. Len(cs) |-> cs[i].confidence]) \div Len(cs)

\* the weights of the five components, in hundredths
WeightContrast == 30

WeightDiversity == 25

WeightSaturation == 20

WeightLuminance == 15

WeightConfidence == 10

\* total_score: the weighted sum, x 100 x ScoreOne
WeightedSum(contrast, diversity, saturation, luminance, confidence) ==
    WeightContrast * contrast + WeightDiversity * diversity
    + WeightSaturation * saturation + WeightLuminance * luminance
    + WeightConfidence * confidence

\* min(1.0, max(0.0, total_score))
ClampScore(total) == Min2(100 * ScoreOne, Max2(0, total))

ScoreRecord(contrast, diversity, saturation, luminance, confidence, total) ==
    [contrast |-> contrast, diversity |-> diversity, saturation |-> saturation,
     luminance |-> luminance, confidence |-> confidence, total |-> total,
     score |-> ClampScore(total)]

ScoreOfParts(contrast, diversity, saturation, luminance, confidence) ==
    ScoreRecord(contrast, diversity, saturation, luminance, confidence,
                WeightedSum(contrast, diversity, saturation, luminance, confidence))

ScoreOfColors(p, cs) ==
    ScoreOfParts(ContrastScore(p), ColorDiversity(cs), SaturationBalance(cs),
                 LuminanceDistribution(cs), ConfidenceScore(cs))

\* the locals of _calculate_quality_score: the five component scores, the
\* weighted sum total_score (x 100 x ScoreOne) and the value returned
QualityParts(p) == ScoreOfColors(p, PaletteValues(p))

\* _calculate_quality_score(palette, image), x 100 x ScoreOne
CalculateQualityScore(p) == QualityParts(p).score


\* the Python type of min(1.0, max(0.0, total_score)): total_score holds
\* np.mean(...) * 0.1 and so is a numpy.float64; max and min return one of
\* their arguments, the literal only when total_score does not lie beyond it
\* (total is x 100 x ScoreOne)
ScoreType(total) ==
    IF total > 0 /\ total < 100 * ScoreOne THEN "numpy.float64" ELSE "float"

\* ColorPalette.to_dict(), every value by its Python type: hex is an
\* f-string, rgb a tuple of the int fields, hsl a tuple of floats from
\* colorsys, confidence the float __post_init__ leaves, the contrast ratios
\* floats computed from the int fields, the compliance a comparison of floats
ToDict(p) ==
    [colors |-> [role \in DOMAIN p.colors |->
                    [hex |-> "str", rgb |-> << "int", "int", "int" >>,
                     hsl |-> << "float", "float", "float" >>, confidence |-> "float"]],
     metadata |->
        [source_image |-> IF p.source_image = NoneStr THEN "NoneType" ELSE "str",
         extraction_method |-> IF p.extraction_method = NoneStr THEN "NoneType" ELSE "str",
         quality_score |-> IF p.quality_score = NoScore THEN "NoneType"
                           ELSE ScoreType(QualityParts(p).total),
         contrast_ratios |-> [pair \in {"text_on_background", "primary_on_background"}
                                        \cup (IF "accent" \in DOMAIN p.colors
                                              THEN {"accent_on_background"} ELSE {})
                                |-> "float"],
         accessibility_compliant |-> "bool"]]

(***************************************************************************)
(* The state.                                                              *)
(***************************************************************************)
VARIABLES
    pc,          \* the position of the running call
    colors,      \* the list of RGB tuples handed to from_colors / ColorPalette
    given,       \* ColorPalette(...): the roles and the confidence the caller gives
    assign,      \* from_colors: the sorted list and the position of each role
    palette,     \* the ColorPalette built, Raised, or None before
    scores,      \* the locals of _calculate_quality_score, or None before
    req,         \* extract_colors: the image and the arguments method, num_colors
    oracle,      \* what the image libraries did on each call made so far
    results,     \* _extract_adaptive: the list results
    tried,       \* _extract_adaptive: how many of methods_to_try are done
    run,         \* the first or the second call of extract_colors on req
    first,       \* what the first call returned, or None during it
    call,        \* ThemeApplier: the arguments of the running call, and the
                 \* application names its loop has still to visit
    cur,         \* _apply_to_application: its locals
    files,       \* the output file of each configured application
    backups,     \* the files of backup_dir
    now,         \* the time, in ticks of half a second
    turns,       \* apply_theme: one entry per pass of its loop, in order
    commands,    \* the passes of the loop that ran a reload command
    restored,    \* restore_backups: one entry per pass of its loop, in order
    snapshot,    \* the files and backups as they were when the call began
    memo,        \* per application, what its most recent backup was taken of
    record,      \* whether last_application.json is written
    budget       \* the calls still to be made

pvars == << pc, colors, given, assign, palette, scores >>

evars == << req, oracle, results, tried, run, first >>

tvars == << call, cur, files, backups, now, turns, commands, restored, snapshot,
           memo, record, budget >>

vars == << pvars, evars, tvars >>

\* the applications configured; reload_command is NoneStr where it is None
Applications ==
    [swaync |-> [template_path |-> "", reload_command |-> "swaync-client -rs"],
     alacritty |-> [template_path |-> "alacritty/colors.toml.j2", reload_command |-> NoneStr]]

Apps == DOMAIN Applications

Absent == [by |-> "absent", palette |-> NoneStr, mtime |-> 0]

\* no call of the ThemeApplier is under way and nothing is on disk
ThemeIdle ==
    /\ call = None
    /\ cur = None
    /\ files = [a \in Apps |-> Absent]
    /\ backups = {}
    /\ now = 0
    /\ turns = << >>
    /\ commands = << >>
    /\ restored = << >>
    /\ snapshot = None
    /\ memo = None
    /\ record = FALSE
    /\ budget = 0

\* no call of extract_colors is under way
ExtractIdle ==
    /\ req = None
    /\ oracle = {}
    /\ results = << >>
    /\ tried = 0
    /\ run = 1
    /\ first = None

\* the RGB tuples the inputs are drawn from: black, white, a grey, a red and
\* a blue; (grey, red, blue) have no pair of contrast 3.0
Universe == << <<0, 0, 0>>, <<255, 255, 255>>, <<128, 128, 128>>,
               <<200, 30, 30>>, <<0, 0, 255>> >>

UniverseSet == {Universe[i] : i \in 1 .. Len(Universe)}

\* every list of at most MaxLen tuples of the universe
ColorLists == UNION {[1 .. n -> UniverseSet] : n \in 0 .. MaxLen}

\* the list of n tuples that walks the universe from offset b in steps of a
StrideList(a, b, n) == [i \in 1 .. n |-> Universe[((a * i + b) % Len(Universe)) + 1]]

(***************************************************************************)
(* SpecPalette: ColorPalette.from_colors, the ColorPalette constructor and *)
(* the quality score, on every list of colours.                            *)
(***************************************************************************)
\* the orders in which a caller's dict names its roles
RoleSeqs == { << "background", "text", "primary", "accent", "warning", "surface" >>,
              << "primary", "accent", "background", "surface", "text", "border" >>,
              << "text", "secondary", "border", "error", "primary", "background" >> }

\* the confidences a caller passes: below 0.0, inside, above 1.0
ConfidenceInputs == {0 - 5000, 5000, 20000}

\* the dicts handed to the constructor: the first n roles of an order
GivenInputs ==
    {[roles |-> SubSeq(roleSeq, 1, n), confidence |-> conf] :
        roleSeq \in RoleSeqs, n \in 1 .. 6, conf \in ConfidenceInputs}

PaletteInit ==
    /\ pc = "start"
    /\ \/ /\ colors \in ColorLists
          /\ given = None
       \/ /\ given \in GivenInputs
          /\ \E b \in 1 .. Len(Universe) : colors = StrideList(1, b, Len(given.roles))
    /\ assign = None
    /\ palette = None
    /\ scores = None
    /\ ExtractIdle
    /\ ThemeIdle

\* ColorPalette.from_colors(colors)
PaletteFromColors ==
    /\ pc = "start"
    /\ given = None
    /\ palette' = FromColors(colors, NoneStr)
    /\ assign' = IF Len(colors) < 3 THEN None ELSE AssignRoles(colors)
    /\ pc' = IF palette' = Raised THEN "raised" ELSE "built"
    /\ UNCHANGED << colors, given, scores, evars, tvars >>

\* the dict {roles[i]: SemanticColor(colors[i], roles[i], confidence)}
GivenColorMap(roles, cs, confidence) ==
    [role \in {roles[i] : i \in 1 .. Len(roles)} |->
        NewSemanticColor(cs[CHOOSE i \in 1 .. Len(roles) : roles[i] = role][1],
                         cs[CHOOSE i \in 1 .. Len(roles) : roles[i] = role][2],
                         cs[CHOOSE i \in 1 .. Len(roles) : roles[i] = role][3],
                         role, confidence, 255)]

\* ColorPalette(colors={...})
PaletteConstruct ==
    /\ pc = "start"
    /\ given # None
    /\ palette' = NewPalette(GivenColorMap(given.roles, colors, given.confidence),
                             NoneStr, NoneStr)
    /\ pc' = IF palette' = Raised THEN "raised" ELSE "built"
    /\ UNCHANGED << colors, given, assign, scores, evars, tvars >>

\* _calculate_quality_score(palette, image)
PaletteScore ==
    /\ pc = "built"
    /\ scores' = QualityParts(palette)
    /\ pc' = "scored"
    /\ UNCHANGED << colors, given, assign, palette, evars, tvars >>

PaletteNext == PaletteFromColors \/ PaletteConstruct \/ PaletteScore

SpecPalette == PaletteInit /\ [][PaletteNext]_vars



(***************************************************************************)
(* ColorExtractor.extract_colors.  The image libraries (PIL, scikit-learn, *)
(* ColorThief) are functions of the image file and of their arguments: an  *)
(* image is drawn from a family (a, b, drop) that fixes the colours each   *)
(* call returns, and whether a call raises is decided the first time the   *)
(* call is made and remembered in oracle.                                  *)
(***************************************************************************)
Methods == {"kmeans_lab", "kmeans_rgb", "median_cut", "colorthief", "adaptive"}

\* ColorExtractor(): default_method
DefaultMethod == "kmeans_lab"

\* ColorExtractor(max_colors=8, min_colors=3): stored by __init__ and read
\* nowhere
MaxColors == 8

MinColors == 3

\* _get_default_color_count
GetDefaultColorCount(method) ==
    CASE method = "kmeans_lab" -> 6
      [] method = "kmeans_rgb" -> 6
      [] method = "median_cut" -> 8
      [] method = "colorthief" -> 5
      [] method = "adaptive" -> 6
      [] OTHER -> 6

\* method = method or self.default_method
MethodOf(r) == IF r.method = NoneStr THEN DefaultMethod ELSE r.method

\* num_colors = num_colors or self._get_default_color_count(method)
NumColorsOf(r) ==
    IF r.num_colors = 0 THEN GetDefaultColorCount(MethodOf(r)) ELSE r.num_colors

Images == [a : 0 .. 2, b : {0, 3}, drop : {0, 3}]

Requests ==
    [image : Images,
     method : Methods \cup {NoneStr, "posterize"},
     num_colors : {0, 1, 3}]

\* a generator left unseeded: every call of extract_colors has its own
RandomStateUnset(which) == which

\* KMeans(..., random_state=42)
RandomState(which) == 42

\* the random state a library call depends on
SeedOf(alg) == IF alg \in {"kmeans_lab", "kmeans_rgb"} THEN RandomState(run) ELSE 0

Key(alg, n) == << alg, n, SeedOf(alg) >>

Known(key) == \E e \in oracle : e.key = key

Answer(key) == (CHOOSE e \in oracle : e.key = key).ok

\* the call key may have the outcome ok: the one it had before, if any
Consistent(key, ok) == Known(key) => ok = Answer(key)

Entry(key, ok) == [key |-> key, ok |-> ok]

AlgIndex(alg) ==
    CASE alg = "kmeans_lab" -> 0
      [] alg = "kmeans_rgb" -> 1
      [] alg = "median_cut" -> 2
      [] alg = "colorthief" -> 3
      [] alg = "median_cut_full" -> 4

\* how many colours a call that does not raise returns: n cluster centres, n
\* palette entries; ColorThief returns the dominant colour for 1 and a
\* palette that may be shorter than asked otherwise
CountOf(alg, n) ==
    IF alg = "colorthief" /\ n # 1 THEN Max2(0, n - req.image.drop) ELSE n

\* the colours the library call returns on the image of req
LibraryColors(alg, n) ==
    StrideList(req.image.a,
               req.image.b + req.image.a * AlgIndex(alg) + SeedOf(alg),
               CountOf(alg, n))

Failed == [ok |-> FALSE, colors |-> << >>]

Returned(cs) == [ok |-> TRUE, colors |-> cs]

\* a fallback that raises whenever ColorThief does
ColorThiefNoFallback(n, thiefOk, cutOk) ==
    IF thiefOk THEN Returned(LibraryColors("colorthief", n)) ELSE Failed

\* _extract_colorthief(image_path, n) when ColorThief raises or not (thiefOk)
\* and the median cut of the reopened image raises or not (cutOk)
ExtractColorThief(n, thiefOk, cutOk) ==
    IF thiefOk THEN Returned(LibraryColors("colorthief", n))
    ELSE IF cutOk THEN Returned(LibraryColors("median_cut_full", n))
    ELSE Failed

\* _extract_kmeans_lab, _extract_kmeans_rgb and _extract_median_cut
ExtractDirect(alg, n, ok) ==
    IF ok THEN Returned(LibraryColors(alg, n)) ELSE Failed

\* the library calls _extract_colorthief makes
ThiefEntries(n, thiefOk, cutOk) ==
    {Entry(Key("colorthief", n), thiefOk)}
    \cup (IF thiefOk THEN {} ELSE {Entry(Key("median_cut_full", n), cutOk)})

\* the outcomes the two calls of _extract_colorthief may have
ThiefConsistent(n, thiefOk, cutOk) ==
    /\ Consistent(Key("colorthief", n), thiefOk)
    /\ IF thiefOk THEN cutOk ELSE Consistent(Key("median_cut_full", n), cutOk)

ExtractInit ==
    /\ pc = "start"
    /\ colors = << >>
    /\ given = None
    /\ assign = None
    /\ palette = None
    /\ scores = None
    /\ req \in Requests
    /\ oracle = {}
    /\ results = << >>
    /\ tried = 0
    /\ run = 1
    /\ first = None
    /\ ThemeIdle

\* extract_colors raises: the call is over
Raise ==
    /\ pc' = "done"
    /\ palette' = Raised
    /\ colors' = << >>

\* the colours are extracted, or the extraction raised
Extracted(out) ==
    IF out.ok
    THEN pc' = "extracted" /\ colors' = out.colors /\ palette' = palette
    ELSE Raise

\* _load_and_preprocess_image
LoadImage ==
    /\ pc = "start"
    /\ \E ok \in BOOLEAN :
          /\ Consistent(Key("load", 0), ok)
          /\ oracle' = oracle \cup {Entry(Key("load", 0), ok)}
          /\ IF ok THEN pc' = "loaded" /\ UNCHANGED << palette, colors >> ELSE Raise
    /\ UNCHANGED << given, assign, scores, req, results, tried, run, first, tvars >>

\* extract_colors, the branches KMEANS_LAB, KMEANS_RGB and MEDIAN_CUT
ExtractByMethod ==
    /\ pc = "loaded"
    /\ MethodOf(req) \in {"kmeans_lab", "kmeans_rgb", "median_cut"}
    /\ \E ok \in BOOLEAN :
          /\ Consistent(Key(MethodOf(req), NumColorsOf(req)), ok)
          /\ oracle' = oracle \cup {Entry(Key(MethodOf(req), NumColorsOf(req)), ok)}
          /\ Extracted(ExtractDirect(MethodOf(req), NumColorsOf(req), ok))
    /\ UNCHANGED << given, assign, scores, req, results, tried, run, first, tvars >>

\* extract_colors, the branch COLORTHIEF
ExtractByColorThief ==
    /\ pc = "loaded"
    /\ MethodOf(req) = "colorthief"
    /\ \E thiefOk, cutOk \in BOOLEAN :
          /\ ThiefConsistent(NumColorsOf(req), thiefOk, cutOk)
          /\ oracle' = oracle \cup ThiefEntries(NumColorsOf(req), thiefOk, cutOk)
          /\ Extracted(ExtractColorThief(NumColorsOf(req), thiefOk, cutOk))
    /\ UNCHANGED << given, assign, scores, req, results, tried, run, first, tvars >>

\* extract_colors, the else branch
UnknownMethod ==
    /\ pc = "loaded"
    /\ MethodOf(req) \notin Methods
    /\ Raise
    /\ UNCHANGED << given, assign, scores, evars, tvars >>

\* methods_to_try
MethodsToTry ==
    << [method |-> "kmeans_lab", n |-> 6],
       [method |-> "colorthief", n |-> 5],
       [method |-> "median_cut", n |-> 7] >>

\* results.append((colors, quality, method)), unless from_colors raised
AppendScored(method, cs, p) ==
    IF p = Raised THEN results
    ELSE Append(results,
                [colors |-> cs, quality |-> CalculateQualityScore(p), method |-> method])

\* results after one more candidate: the try block appends unless the
\* extraction, from_colors or the scoring raised
Appended(method, out) ==
    IF out.ok
    THEN AppendScored(method, out.colors, FromColors(out.colors, "image_path"))
    ELSE results

\* _extract_adaptive: one pass of the loop over methods_to_try
AdaptiveTry ==
    /\ pc = "loaded"
    /\ MethodOf(req) = "adaptive"
    /\ tried < Len(MethodsToTry)
    /\ tried' = tried + 1
    /\ \E ok, cutOk \in BOOLEAN :
          IF MethodsToTry[tried + 1].method = "colorthief"
          THEN /\ ThiefConsistent(MethodsToTry[tried + 1].n, ok, cutOk)
               /\ oracle' = oracle \cup ThiefEntries(MethodsToTry[tried + 1].n, ok, cutOk)
               /\ results' = Appended("colorthief",
                                ExtractColorThief(MethodsToTry[tried + 1].n, ok, cutOk))
          ELSE /\ cutOk
               /\ Consistent(Key(MethodsToTry[tried + 1].method, MethodsToTry[tried + 1].n), ok)
               /\ oracle' = oracle \cup {Entry(Key(MethodsToTry[tried + 1].method,
                                                  MethodsToTry[tried + 1].n), ok)}
               /\ results' = Appended(MethodsToTry[tried + 1].method,
                                ExtractDirect(MethodsToTry[tried + 1].method,
                                              MethodsToTry[tried + 1].n, ok))
    /\ UNCHANGED << pc, colors, given, assign, palette, scores, req, run, first, tvars >>

\* the last of the best results, where max returns the first
LastBest(rs) ==
    CHOOSE i \in 1 .. Len(rs) :
        /\ \A j \in 1 .. Len(rs) : rs[j].quality <= rs[i].quality
        /\ \A j \in (i + 1) .. Len(rs) : rs[j].quality < rs[i].quality

\* max(results, key=lambda x: x[1]): the first of the best results
BestResult(rs) ==
    CHOOSE i \in 1 .. Len(rs) :
        /\ \A j \in 1 .. Len(rs) : rs[j].quality <= rs[i].quality
        /\ \A j \in 1 .. (i - 1) : rs[j].quality < rs[i].quality

\* _extract_adaptive after the loop: the fallback, or the best result
AdaptivePick ==
    /\ pc = "loaded"
    /\ MethodOf(req) = "adaptive"
    /\ tried = Len(MethodsToTry)
    /\ IF results = << >>
       THEN \E ok \in BOOLEAN :
               /\ Consistent(Key("median_cut", 5), ok)
               /\ oracle' = oracle \cup {Entry(Key("median_cut", 5), ok)}
               /\ Extracted(ExtractDirect("median_cut", 5, ok))
       ELSE /\ oracle' = oracle
            /\ Extracted(Returned(results[BestResult(results)].colors))
    /\ UNCHANGED << given, assign, scores, req, results, tried, run, first, tvars >>

\* the palette extract_colors returns: from_colors, then extraction_method
\* and quality_score are set
Finished(p, method) ==
    IF p = Raised THEN Raised
    ELSE [p EXCEPT !.extraction_method = method,
                   !.quality_score = CalculateQualityScore(p)]

\* extract_colors from ColorPalette.from_colors to the return
BuildPalette ==
    /\ pc = "extracted"
    /\ palette' = Finished(FromColors(colors, "image_path"), MethodOf(req))
    /\ pc' = "done"
    /\ UNCHANGED << colors, given, assign, scores, evars, tvars >>

\* extract_colors is called again with the same image and arguments
Rerun ==
    /\ pc = "done"
    /\ run = 1
    /\ run' = 2
    /\ first' = palette
    /\ pc' = "start"
    /\ colors' = << >>
    /\ palette' = None
    /\ results' = << >>
    /\ tried' = 0
    /\ UNCHANGED << given, assign, scores, req, oracle, tvars >>

Next ==
    \/ LoadImage
    \/ ExtractByMethod
    \/ ExtractByColorThief
    \/ UnknownMethod
    \/ AdaptiveTry
    \/ AdaptivePick
    \/ BuildPalette
    \/ Rerun

Spec == ExtractInit /\ [][Next]_vars


(***************************************************************************)
(* ThemeApplier.apply_theme and restore_backups.  A file is what wrote it  *)
(* (by), the palette it was rendered from, and its modification time; a    *)
(* backup is such a file under the name <app>_<second>.backup.             *)
(***************************************************************************)
MaxCalls == 3

MaxFaults == 1

\* the calls of apply_theme made: applications is None (given FALSE) or a
\* list of names
ApplyArgs ==
    {[given |-> FALSE, names |-> << >>, create_backup |-> TRUE,
      reload_applications |-> TRUE, palette |-> "paletteA"],
     [given |-> FALSE, names |-> << >>, create_backup |-> FALSE,
      reload_applications |-> FALSE, palette |-> "paletteB"],
     [given |-> TRUE, names |-> << "swaync" >>, create_backup |-> TRUE,
      reload_applications |-> FALSE, palette |-> "paletteB"],
     [given |-> TRUE, names |-> << "swaync" >>, create_backup |-> TRUE,
      reload_applications |-> TRUE, palette |-> "paletteA"],
     [given |-> TRUE, names |-> << "alacritty", "alacritty" >>, create_backup |-> TRUE,
      reload_applications |-> TRUE, palette |-> "paletteB"],
     [given |-> TRUE, names |-> << "kitty", "swaync" >>, create_backup |-> FALSE,
      reload_applications |-> TRUE, palette |-> "paletteA"]}

\* the calls of restore_backups made
RestoreArgs ==
    {[given |-> FALSE, names |-> << >>],
     [given |-> TRUE, names |-> << "swaync" >>],
     [given |-> TRUE, names |-> << "kitty", "alacritty" >>]}

\* list(self.applications.keys()), all of them enabled
AllApplications == << "alacritty", "swaync" >>

\* every configured application, whatever the caller asked for
NamesAll(arg) == AllApplications

NamesOf(arg) == IF arg.given THEN arg.names ELSE AllApplications

UserFile == [by |-> "user", palette |-> NoneStr, mtime |-> 0]

NoContent == [by |-> "none", palette |-> NoneStr]

Content(f) == [by |-> f.by, palette |-> f.palette]

Exists(f) == f.by # "absent"

\* _generate_swaync_css(palette) for swaync, render_template(template_path,
\* palette, ...) for the others
Rendered(app, p) ==
    [by |-> IF app = "swaync" THEN "_generate_swaync_css"
            ELSE Applications[app].template_path,
     palette |-> p]

\* strftime("%Y%m%d_%H%M%S"): the second a time lies in
Second(t) == t \div 2

\* a copy that writes nothing
StoredNowhere(bs, app, stamp, f) == bs

\* shutil.copy2(file_path, backup_dir/<app>_<stamp>.backup): the copy keeps
\* the modification time and replaces a file of the same name
Stored(bs, app, stamp, f) ==
    {b \in bs : ~(b.app = app /\ b.stamp = stamp)}
    \cup {[app |-> app, stamp |-> stamp, by |-> f.by, palette |-> f.palette,
           mtime |-> f.mtime]}

\* every result reports success
ThemeApplicationSucceeded(app, success, path, backup_created, reloaded, error, reload_output) ==
    [app_name |-> app, success |-> TRUE, output_path |-> path,
     backup_created |-> backup_created, reloaded |-> reloaded,
     error |-> error, reload_output |-> reload_output]

ThemeApplication(app, success, path, backup_created, reloaded, error, reload_output) ==
    [app_name |-> app, success |-> success, output_path |-> path,
     backup_created |-> backup_created, reloaded |-> reloaded,
     error |-> error, reload_output |-> reload_output]

\* the names the loop of the running call has visited
Visited == {turns[i].result.app_name : i \in 1 .. Len(turns)}

\* the results dict apply_theme returns: the last result of each name
ResultsDict ==
    [name \in Visited |->
        turns[CHOOSE i \in 1 .. Len(turns) :
                /\ turns[i].result.app_name = name
                /\ \A j \in (i + 1) .. Len(turns) : turns[j].result.app_name # name].result]

ThemeInit ==
    /\ pc = "idle"
    /\ colors = << >>
    /\ given = None
    /\ assign = None
    /\ palette = None
    /\ scores = None
    /\ ExtractIdle
    /\ call = None
    /\ cur = None
    /\ files \in [Apps -> {Absent, UserFile}]
    /\ backups = {}
    /\ now = 1
    /\ turns = << >>
    /\ commands = << >>
    /\ restored = << >>
    /\ snapshot = [files |-> files, backups |-> {}]
    /\ memo = [a \in Apps |-> [taken |-> NoContent, before |-> NoContent, again |-> FALSE]]
    /\ record = FALSE
    /\ budget = [calls |-> MaxCalls, faults |-> MaxFaults]

\* the step goes wrong (failed) only while the environment has faults left
Spend(failed) ==
    /\ failed => budget.faults > 0
    /\ budget' = [budget EXCEPT !.faults = IF failed THEN @ - 1 ELSE @]

\* a call begins: its arguments, and the disk as it finds it
Begin(op, arg) ==
    /\ pc = "idle"
    /\ budget.calls > 0
    /\ budget' = [budget EXCEPT !.calls = @ - 1]
    /\ call' = [op |-> op, todo |-> NamesOf(arg), arg |-> arg]
    /\ snapshot' = [files |-> files, backups |-> backups]
    /\ UNCHANGED << cur, files, backups, now, turns, commands, restored, memo, record >>
    /\ UNCHANGED << colors, given, assign, palette, scores, evars >>

\* apply_theme(palette, applications, create_backup, reload_applications)
ApplyTheme ==
    \E arg \in ApplyArgs :
        /\ Begin("apply_theme", arg)
        /\ pc' = "loop"

\* one pass of the loop is over: its result, and what the pass found and did
EndTurn(result, existed, before, saved, copied) ==
    /\ turns' = Append(turns, [result |-> result, existed |-> existed,
                               before |-> before, saved |-> saved, copied |-> copied])
    /\ call' = [call EXCEPT !.todo = Tail(@)]
    /\ cur' = None
    /\ pc' = "loop"
    /\ UNCHANGED << restored, snapshot, record >>
    /\ UNCHANGED << colors, given, assign, palette, scores, evars >>

\* the pass ends inside _apply_to_application
EndApply(result) ==
    EndTurn(result, cur.existed, cur.before, cur.saved, cur.copied)

\* apply_theme: app_name not in self.applications
UnknownApplication ==
    /\ pc = "loop"
    /\ call.todo # << >>
    /\ Head(call.todo) \notin Apps
    /\ EndTurn(ThemeApplication(Head(call.todo), FALSE, "", FALSE, FALSE,
                                "Unknown application: " \o Head(call.todo), NoneStr),
               FALSE, NoContent, NoContent, FALSE)
    /\ UNCHANGED << files, backups, now, commands, memo, budget >>

\* _apply_to_application begins
Enter(app, backup_created, saved) ==
    /\ cur' = [app |-> app, backup_created |-> backup_created,
               existed |-> Exists(files[app]), before |-> Content(files[app]),
               saved |-> saved, copied |-> backup_created, rendered |-> NoContent]
    /\ pc' = "generate"
    /\ UNCHANGED << call, files, now, turns, commands, restored, snapshot, record, budget >>
    /\ UNCHANGED << colors, given, assign, palette, scores, evars >>

\* _apply_to_application: no backup is asked for, or there is no file
BackupSkipped ==
    /\ pc = "loop"
    /\ call.todo # << >>
    /\ Head(call.todo) \in Apps
    /\ ~(call.arg.create_backup /\ Exists(files[Head(call.todo)]))
    /\ Enter(Head(call.todo), FALSE, NoContent)
    /\ UNCHANGED << backups, memo >>

\* _apply_to_application: _create_backup copies the output file
BackupCreated ==
    /\ pc = "loop"
    /\ call.todo # << >>
    /\ Head(call.todo) \in Apps
    /\ call.arg.create_backup /\ Exists(files[Head(call.todo)])
    /\ backups' = Stored(backups, Head(call.todo), Second(now), files[Head(call.todo)])
    /\ memo' = [memo EXCEPT ![Head(call.todo)] =
                    [taken |-> Content(files[Head(call.todo)]),
                     before |-> Content(snapshot.files[Head(call.todo)]),
                     again |-> Head(call.todo) \in Visited]]
    /\ Enter(Head(call.todo), TRUE, Content(files[Head(call.todo)]))

\* _apply_to_application: shutil.copy2 raises in _create_backup, and
\* apply_theme catches it
BackupRaised ==
    /\ pc = "loop"
    /\ call.todo # << >>
    /\ Head(call.todo) \in Apps
    /\ call.arg.create_backup /\ Exists(files[Head(call.todo)])
    /\ Spend(TRUE)
    /\ EndTurn(ThemeApplication(Head(call.todo), FALSE, "", FALSE, FALSE,
                                "exception", NoneStr),
               TRUE, Content(files[Head(call.todo)]), NoContent, FALSE)
    /\ UNCHANGED << files, backups, now, commands, memo >>

\* _apply_to_application: the content is generated, or generating it raises
GenerateContent ==
    /\ pc = "generate"
    /\ \/ /\ cur' = [cur EXCEPT !.rendered = Rendered(cur.app, call.arg.palette)]
          /\ pc' = "write"
          /\ UNCHANGED << call, turns, restored, snapshot, record, budget >>
          /\ UNCHANGED << colors, given, assign, palette, scores, evars >>
       \/ /\ Spend(TRUE)
          /\ EndApply(ThemeApplication(cur.app, FALSE, cur.app, cur.backup_created,
                                       FALSE, "Content generation failed", NoneStr))
    /\ UNCHANGED << files, backups, now, commands, memo >>

\* _apply_to_application: ensure_dir and the write of the output file.  The
\* write may raise before the file is opened or after open(path, 'w') has
\* truncated it; ensure_dir has something to do only where the file is absent
WriteFile ==
    /\ pc = "write"
    /\ \/ /\ files' = [files EXCEPT ![cur.app] =
                         [by |-> cur.rendered.by, palette |-> cur.rendered.palette,
                          mtime |-> now]]
          /\ now' = now + 1
          /\ pc' = "reload"
          /\ UNCHANGED << call, cur, turns, restored, snapshot, record, budget >>
          /\ UNCHANGED << colors, given, assign, palette, scores, evars >>
       \/ /\ files' = [files EXCEPT ![cur.app] =
                         [by |-> "partial", palette |-> call.arg.palette, mtime |-> now]]
          /\ now' = now + 1
          /\ Spend(TRUE)
          /\ EndApply(ThemeApplication(cur.app, FALSE, cur.app, cur.backup_created,
                                       FALSE, "Failed to write config file", NoneStr))
       \/ /\ UNCHANGED << files, now >>
          /\ Spend(TRUE)
          /\ EndApply(ThemeApplication(cur.app, FALSE, cur.app, cur.backup_created,
                                       FALSE, "Failed to write config file", NoneStr))
       \/ /\ ~Exists(files[cur.app])
          /\ UNCHANGED << files, now >>
          /\ Spend(TRUE)
          /\ EndApply(ThemeApplication(cur.app, FALSE, "", FALSE, FALSE,
                                       "exception", NoneStr))
    /\ UNCHANGED << backups, commands, memo >>

\* reloaded set whatever became of the command
ReloadedAnyway(output) == TRUE

\* reloaded = True is reached only when subprocess.run returned
Reloaded(output) == output = "stdout"

\* _apply_to_application: the reload, and the result of a pass that wrote
ReloadApplication ==
    /\ pc = "reload"
    /\ IF ~call.arg.reload_applications
       THEN /\ EndApply(ThemeApplication(cur.app, TRUE, cur.app, cur.backup_created,
                                         FALSE, NoneStr, NoneStr))
            /\ UNCHANGED << commands, budget >>
       ELSE IF Applications[cur.app].reload_command # NoneStr
       THEN /\ commands' = Append(commands, Len(turns) + 1)
            /\ \E output \in {"stdout", "Reload command timed out", "raised"} :
                  /\ Spend(output # "stdout")
                  /\ EndApply(ThemeApplication(cur.app, TRUE, cur.app, cur.backup_created,
                                               Reloaded(output), NoneStr, output))
       ELSE /\ EndApply(ThemeApplication(cur.app, TRUE, cur.app, cur.backup_created,
                                         TRUE, NoneStr, "Live reload (automatic)"))
            /\ UNCHANGED << commands, budget >>
    /\ UNCHANGED << files, backups, now, memo >>

\* apply_theme after the loop: _save_application_record, whose failure is
\* logged and no more
SaveRecord ==
    /\ pc = "loop"
    /\ call.todo = << >>
    /\ \E saved \in BOOLEAN :
          /\ Spend(~saved)
          /\ record' = (record \/ saved)
    /\ pc' = "returned"
    /\ UNCHANGED << call, cur, files, backups, now, turns, commands, restored,
                    snapshot, memo >>
    /\ UNCHANGED << colors, given, assign, palette, scores, evars >>

\* restore_backups(applications)
RestoreBackups ==
    \E arg \in RestoreArgs :
        /\ Begin("restore_backups", arg)
        /\ pc' = "restoring"

\* the sort without reverse=True: a backup with the least modification time
OldestBackups(app) ==
    {b \in backups : /\ b.app = app
                     /\ \A c \in backups : c.app = app => b.mtime <= c.mtime}

\* the backups _find_latest_backup may return: of the files <app>_*.backup,
\* one with the greatest modification time
LatestBackups(app) ==
    {b \in backups : /\ b.app = app
                     /\ \A c \in backups : c.app = app => c.mtime <= b.mtime}

\* one pass of the loop of restore_backups is over
EndRestore(app, ok) ==
    /\ restored' = Append(restored, [app_name |-> app, ok |-> ok])
    /\ call' = [call EXCEPT !.todo = Tail(@)]
    /\ UNCHANGED << pc, cur, backups, now, turns, commands, snapshot, memo, record >>
    /\ UNCHANGED << colors, given, assign, palette, scores, evars >>

\* restore_backups: one pass of the loop; shutil.copy2 may raise
RestoreOne ==
    /\ pc = "restoring"
    /\ call.todo # << >>
    /\ IF Head(call.todo) \notin Apps \/ LatestBackups(Head(call.todo)) = {}
       THEN /\ EndRestore(Head(call.todo), FALSE)
            /\ UNCHANGED << files, budget >>
       ELSE \/ \E b \in LatestBackups(Head(call.todo)) :
                  /\ files' = [files EXCEPT ![Head(call.todo)] =
                                  [by |-> b.by, palette |-> b.palette, mtime |-> b.mtime]]
                  /\ EndRestore(Head(call.todo), TRUE)
                  /\ UNCHANGED budget
            \/ /\ Spend(TRUE)
               /\ EndRestore(Head(call.todo), FALSE)
               /\ UNCHANGED files

\* restore_backups after the loop
RestoreDone ==
    /\ pc = "restoring"
    /\ call.todo = << >>
    /\ pc' = "returned"
    /\ UNCHANGED << colors, given, assign, palette, scores, evars, tvars >>

\* the calls of preview_theme made
PreviewArgs ==
    {[app |-> "swaync", palette |-> "paletteA"],
     [app |-> "alacritty", palette |-> "paletteB"],
     [app |-> "kitty", palette |-> "paletteA"]}

\* template_engine.render_template(template_path, palette, ...): no template
\* has the empty name, get_template raises TemplateNotFound (a TemplateError)
\* and render_template turns it into a ValueError
RenderTemplate(template_path, p) ==
    IF template_path = ""
    THEN [by |-> "ValueError: Template rendering failed", palette |-> NoneStr]
    ELSE [by |-> template_path, palette |-> p]

\* preview_theme(palette, app_name): what it returns or raises; nothing is
\* written
PreviewTheme ==
    /\ pc = "idle"
    /\ budget.calls > 0
    /\ budget' = [budget EXCEPT !.calls = @ - 1]
    /\ \E arg \in PreviewArgs :
          /\ call' = [op |-> "preview_theme", todo |-> << >>, arg |-> arg]
          /\ cur' = [app |-> arg.app,
                     rendered |-> IF arg.app \notin Apps
                                  THEN [by |-> "ValueError: Unknown application: " \o arg.app,
                                        palette |-> NoneStr]
                                  ELSE RenderTemplate(Applications[arg.app].template_path,
                                                      arg.palette)]
    /\ snapshot' = [files |-> files, backups |-> backups]
    /\ pc' = "returned"
    /\ UNCHANGED << files, backups, now, turns, commands, restored, memo, record >>
    /\ UNCHANGED << colors, given, assign, palette, scores, evars >>

\* the call returns its results to the caller
Return ==
    /\ pc = "returned"
    /\ pc' = "idle"
    /\ call' = None
    /\ turns' = << >>
    /\ commands' = << >>
    /\ restored' = << >>
    /\ snapshot' = [files |-> files, backups |-> backups]
    /\ cur' = None
    /\ UNCHANGED << files, backups, now, memo, record, budget >>
    /\ UNCHANGED << colors, given, assign, palette, scores, evars >>

ThemeNext ==
    \/ ApplyTheme
    \/ UnknownApplication
    \/ BackupSkipped
    \/ BackupCreated
    \/ BackupRaised
    \/ GenerateContent
    \/ WriteFile
    \/ ReloadApplication
    \/ SaveRecord
    \/ RestoreBackups
    \/ RestoreOne
    \/ RestoreDone
    \/ PreviewTheme
    \/ Return

SpecTheme == ThemeInit /\ [][ThemeNext]_vars

(***************************************************************************)
(* SpecColor: the methods of one SemanticColor: luminance and              *)
(* contrast_ratio against another colour, hex and hex_with_alpha, and      *)
(* from_hex on texts made from them.  A text is the sequence of its        *)
(* characters.                                                             *)
(***************************************************************************)
\* the channel values the colours are drawn from: the ends, and values with
\* a zero and a non-zero first hex digit
Channels == {0, 15, 16, 128, 255}

ColorTuples == {<< r, g, b >> : r \in Channels, g \in Channels, b \in Channels}

\* the digits of format(n, 'x') and of int(text, 16)
HexDigits == << "0", "1", "2", "3", "4", "5", "6", "7",
                "8", "9", "a", "b", "c", "d", "e", "f" >>

\* the two digits with the low one first
FormatLowFirst(n) == << HexDigits[(n % 16) + 1], HexDigits[(n \div 16) + 1] >>

\* f"{n:02x}" for n in 0 .. 255
Format02x(n) == << HexDigits[(n \div 16) + 1], HexDigits[(n % 16) + 1] >>

\* SemanticColor.hex
Hex(c) == << "#" >> \o Format02x(c.r) \o Format02x(c.g) \o Format02x(c.b)

\* SemanticColor.hex_with_alpha
HexWithAlpha(c) == Hex(c) \o Format02x(c.alpha)

\* hex_color.lstrip('#')
RECURSIVE Lstrip(_)
Lstrip(t) == IF t # << >> /\ Head(t) = "#" THEN Lstrip(Tail(t)) ELSE t

\* int(t[i:i+2], 16) on two of the digits
IntOf(t, i) ==
    16 * (CHOOSE k \in 0 .. 15 : HexDigits[k + 1] = t[i])
    + (CHOOSE k \in 0 .. 15 : HexDigits[k + 1] = t[i + 1])

\* from_hex after the '#' is stripped: the three formats, the alpha of the
\* third read and not passed on, and the ValueError
FromStripped(h) ==
    IF Len(h) = 3
    THEN SemanticColor(IntOf(<< h[1], h[1] >>, 1), IntOf(<< h[2], h[2] >>, 1),
                       IntOf(<< h[3], h[3] >>, 1), "primary")
    ELSE IF Len(h) \in {6, 8}
    THEN SemanticColor(IntOf(h, 1), IntOf(h, 3), IntOf(h, 5), "primary")
    ELSE Raised

\* SemanticColor.from_hex(hex_color)
FromHex(t) == FromStripped(Lstrip(t))

\* the texts handed to from_hex: the two hex forms of c, with one '#', none
\* and two, the short form of three digits, and texts of every other length
\* up to 9
HexTexts(c) ==
    {Hex(c), Tail(Hex(c)), << "#" >> \o Hex(c), HexWithAlpha(c), Tail(HexWithAlpha(c)),
     << "#", Hex(c)[2], Hex(c)[4], Hex(c)[6] >>, << Hex(c)[2], Hex(c)[4], Hex(c)[6] >>,
     HexWithAlpha(c) \o << "0" >>}
    \cup {SubSeq(HexWithAlpha(c), 1, n) : n \in {0, 1, 2, 3, 5, 6, 8}}

\* the colour of the state: SemanticColor(r, g, b, role, alpha=alpha)
ThisColor == NewSemanticColor(colors[1][1], colors[1][2], colors[1][3],
                              "accent", ScoreOne, given.alpha)

ColorInit ==
    /\ pc = "color"
    /\ \E t \in ColorTuples : colors = << t >>
    /\ given \in [alpha : {0, 128, 255}]
    /\ assign = None
    /\ palette = None
    /\ scores = None
    /\ ExtractIdle
    /\ ThemeIdle

\* luminance of the colour and of another, and contrast_ratio both ways
Measure ==
    /\ pc = "color"
    /\ \E t \in ColorTuples :
          scores' = [other |-> t,
                     l1 |-> Luminance(ThisColor),
                     l2 |-> Luminance(FromRgb(t)),
                     ab |-> ContrastRatio(ThisColor, FromRgb(t)),
                     ba |-> ContrastRatio(FromRgb(t), ThisColor)]
    /\ pc' = "measured"
    /\ UNCHANGED << colors, given, assign, palette, evars, tvars >>

\* the properties hex and hex_with_alpha
Format ==
    /\ pc = "color"
    /\ assign' = [hex |-> Hex(ThisColor), hex_with_alpha |-> HexWithAlpha(ThisColor)]
    /\ pc' = "formatted"
    /\ UNCHANGED << colors, given, palette, scores, evars, tvars >>

\* SemanticColor.from_hex(text)
ParseHex ==
    /\ pc = "formatted"
    /\ \E t \in HexTexts(ThisColor) : palette' = [text |-> t, color |-> FromHex(t)]
    /\ pc' = "parsed"
    /\ UNCHANGED << colors, given, assign, scores, evars, tvars >>

ColorNext == Measure \/ Format \/ ParseHex

SpecColor == ColorInit /\ [][ColorNext]_vars

(***************************************************************************)
(* SpecFile: utils.file_utils.safe_write_file on one file path: the target *)
(* file, '<file>.tmp' and '<file>.backup', each by its content.            *)
(***************************************************************************)
\* what a path holds before the first call: nothing, or something left there
DiskInputs ==
    [target : {"absent", "old"}, tmp : {"absent", "stale"}, backup : {"absent", "older"},
     dir : BOOLEAN]

\* the calls of safe_write_file made
WriteArgs == [content : {"first", "second"}, backup : BOOLEAN]

FileInit ==
    /\ pc = "ready"
    /\ colors = << >>
    /\ given = None
    /\ assign = None
    /\ palette = None
    /\ scores = None
    /\ ExtractIdle
    /\ files \in {d \in DiskInputs : d.dir \/ (d.target = "absent" /\ d.tmp = "absent"
                                                /\ d.backup = "absent")}
    /\ call = None
    /\ cur = None
    /\ snapshot = None
    /\ budget = [calls |-> MaxCalls, faults |-> MaxFaults]
    /\ backups = {}
    /\ now = 0
    /\ turns = << >>
    /\ commands = << >>
    /\ restored = << >>
    /\ memo = None
    /\ record = FALSE

\* a step of safe_write_file: the disk after it, where the call stands, and
\* the step that raised, if one did
FileStep(disk, next, failed) ==
    /\ files' = disk
    /\ pc' = next
    /\ cur' = [failed |-> failed]
    /\ Spend(failed # NoneStr)
    /\ UNCHANGED << call, snapshot, backups, now, turns, commands, restored, memo, record >>
    /\ UNCHANGED << colors, given, assign, palette, scores, evars >>

\* safe_write_file(file_path, content, backup)
SafeWriteFile ==
    /\ pc = "ready"
    /\ budget.calls > 0
    /\ budget' = [budget EXCEPT !.calls = @ - 1]
    /\ call' \in WriteArgs
    /\ snapshot' = files
    /\ cur' = [failed |-> NoneStr]
    /\ pc' = "backup"
    /\ UNCHANGED << files, backups, now, turns, commands, restored, memo, record >>
    /\ UNCHANGED << colors, given, assign, palette, scores, evars >>

\* safe_write_file: backup_file(file_path) if backup and the file exists;
\* shutil.copy2 may raise before it wrote or after it wrote a part
BackupFile ==
    /\ pc = "backup"
    /\ IF call.backup /\ files.target # "absent"
       THEN \/ FileStep([files EXCEPT !.backup = files.target], "ensure_dir", NoneStr)
            \/ FileStep(files, "raised", "backup_file")
            \/ FileStep([files EXCEPT !.backup = "partial"], "raised", "backup_file")
       ELSE FileStep(files, "ensure_dir", NoneStr)

\* safe_write_file: ensure_dir(os.path.dirname(file_path)); os.makedirs may
\* raise where the directory is missing
EnsureDir ==
    /\ pc = "ensure_dir"
    /\ \/ FileStep([files EXCEPT !.dir = TRUE], "write", NoneStr)
       \/ /\ ~files.dir
          /\ FileStep(files, "raised", "ensure_dir")

\* the temporary file is left where it is
KeepTemp(disk) == disk

\* except Exception: os.remove(temp_path) if it exists
RemoveTemp(disk) == [disk EXCEPT !.tmp = "absent"]

\* safe_write_file: open(temp_path, 'w') and f.write(content); open may raise
\* and write may raise after a part is written, and the except clause runs
WriteTemp ==
    /\ pc = "write"
    /\ \/ FileStep([files EXCEPT !.tmp = call.content], "move", NoneStr)
       \/ FileStep(RemoveTemp(files), "raised", "open")
       \/ FileStep(RemoveTemp([files EXCEPT !.tmp = "partial"]), "raised", "write")

\* safe_write_file: shutil.move(temp_path, file_path), a rename inside one
\* directory; when it raises the except clause runs
MoveTemp ==
    /\ pc = "move"
    /\ \/ FileStep([files EXCEPT !.target = files.tmp, !.tmp = "absent"], "returned", NoneStr)
       \/ FileStep(RemoveTemp(files), "raised", "move")

\* the call is over: it returned or raised, and the caller goes on
FileDone ==
    /\ pc \in {"returned", "raised"}
    /\ pc' = "ready"
    /\ UNCHANGED << call, cur, files, snapshot, budget, backups, now, turns, commands,
                    restored, memo, record >>
    /\ UNCHANGED << colors, given, assign, palette, scores, evars >>

FileNext == SafeWriteFile \/ BackupFile \/ EnsureDir \/ WriteTemp \/ MoveTemp \/ FileDone

SpecFile == FileInit /\ [][FileNext]_vars

(***************************************************************************)
(* Claims about palettes (checked under SpecPalette).                      *)
(***************************************************************************)
IsPalette(p) == p # None /\ p # Raised

Rgb(c) == << c.r, c.g, c.b >>

\* the input tuples as colours
InputColor(i) == FromRgb(colors[i])

Inputs == 1 .. Len(colors)

FromColorsDone == given = None /\ pc \in {"built", "raised", "scored"}

ConstructDone == given # None /\ pc \in {"built", "raised", "scored"}

GivenRoles == {given.roles[i] : i \in 1 .. Len(given.roles)}

\* C1: every ColorPalette that exists holds the roles BACKGROUND, TEXT and
\* PRIMARY: the constructor raises exactly when one of them is missing from
\* the dict, from_colors returns a palette with all three for every list of
\* at least 3 colours, and raises for every shorter list.
C1_RequiredRoles ==
    /\ IsPalette(palette) => RequiredRoles \subseteq DOMAIN palette.colors
    /\ ConstructDone => (palette = Raised <=> ~(RequiredRoles \subseteq GivenRoles))
    /\ (FromColorsDone /\ Len(colors) >= 3) =>
            /\ IsPalette(palette)
            /\ RequiredRoles \subseteq DOMAIN palette.colors
    /\ (FromColorsDone /\ Len(colors) < 3) => palette = Raised

\* from_colors has built a palette from exactly three colours, two of them equal
C1_Witness ==
    /\ FromColorsDone /\ Len(colors) = 3 /\ colors[1] = colors[2]
    /\ IsPalette(palette)
    /\ RequiredRoles \subseteq DOMAIN palette.colors

\* the inputs whose contrast with the colour bg is at least 3.0
Readable(bg) == {j \in Inputs : ContrastRatio(InputColor(j), bg) >= 3000}

\* C2: from_colors gives BACKGROUND to an input colour of minimum luminance,
\* and TEXT to the lightest input colour whose contrast with that background
\* is at least 3.0, or to an input colour of maximum luminance when no input
\* reaches 3.0.
C2_BackgroundAndText ==
    (FromColorsDone /\ IsPalette(palette)) =>
        LET bg == palette.colors["background"]
            tx == palette.colors["text"]
        IN  /\ \E i \in Inputs : Rgb(bg) = colors[i]
            /\ \A j \in Inputs : Luminance(bg) <= Luminance(InputColor(j))
            /\ bg.role = "background" /\ tx.role = "text"
            /\ IF Readable(bg) # {}
               THEN /\ \E i \in Readable(bg) : Rgb(tx) = colors[i]
                    /\ \A j \in Readable(bg) : Luminance(InputColor(j)) <= Luminance(tx)
               ELSE /\ \E i \in Inputs : Rgb(tx) = colors[i]
                    /\ \A j \in Inputs : Luminance(InputColor(j)) <= Luminance(tx)

\* a palette whose inputs hold a colour that is not the background's and has
\* less than 3.0 against it, and one that has 3.0: the contrast test decides
C2_Witness ==
    /\ FromColorsDone /\ IsPalette(palette)
    /\ Readable(palette.colors["background"]) # {}
    /\ \E j \in Inputs :
          /\ colors[j] # Rgb(palette.colors["background"])
          /\ j \notin Readable(palette.colors["background"])

\* how often the tuple t occurs in the input list, and in the sorted list
CountIn(t) == Cardinality({i \in Inputs : colors[i] = t})

CountSorted(t) == Cardinality({i \in 1 .. Len(assign.sem) : Rgb(assign.sem[i]) = t})

\* C3: from_colors gives PRIMARY to the most saturated (HSL) of the colours
\* strictly between the darkest and the lightest entry of the luminance
\* order, so PRIMARY is never the entry that is BACKGROUND or TEXT.
C3_PrimaryFromMiddle ==
    (FromColorsDone /\ IsPalette(palette)) =>
        LET sem == assign.sem
            n == Len(assign.sem)
            prim == assign.idx["primary"]
        IN  /\ n = Len(colors)
            /\ \A t \in UniverseSet : CountIn(t) = CountSorted(t)
            /\ \A i \in 1 .. (n - 1) : Luminance(sem[i]) <= Luminance(sem[i + 1])
            /\ prim \in 2 .. (n - 1)
            /\ \A j \in 2 .. (n - 1) : ~SatLess(sem[prim], sem[j])
            /\ prim # assign.idx["background"]
            /\ prim # assign.idx["text"]
            /\ assign.idx["background"] = 1
            /\ assign.idx["text"] = n
            /\ Rgb(palette.colors["primary"]) = Rgb(sem[prim])
            /\ palette.colors["primary"].role = "primary"

\* the most saturated colour of the list is its darkest, and the more
\* saturated of two middle colours became PRIMARY
C3_Witness ==
    /\ FromColorsDone /\ IsPalette(palette)
    /\ Len(colors) >= 4
    /\ SatLess(assign.sem[assign.idx["primary"]], assign.sem[1])
    /\ \E j \in 2 .. (Len(colors) - 1) : SatLess(assign.sem[j], assign.sem[assign.idx["primary"]])

WeightTotal ==
    WeightContrast + WeightDiversity + WeightSaturation + WeightLuminance
    + WeightConfidence

\* C5: the quality score is 0.30 contrast + 0.25 diversity + 0.20 saturation
\* + 0.15 luminance + 0.10 confidence; the weights sum to 1, every component
\* lies in [0, 1], the contrast component is min(1, text contrast / 4.5), and
\* the final clamp to [0, 1] leaves the weighted sum as it is.
C5_QualityScore ==
    pc = "scored" =>
        /\ WeightTotal = 100
        /\ \A part \in {"contrast", "diversity", "saturation", "luminance", "confidence"} :
              scores[part] \in 0 .. ScoreOne
        /\ scores.contrast
             = Min2(ScoreOne,
                    (ContrastRatio(palette.colors["text"], palette.colors["background"])
                        * ScoreOne) \div 4500)
        /\ scores.total = 30 * scores.contrast + 25 * scores.diversity
                          + 20 * scores.saturation + 15 * scores.luminance
                          + 10 * scores.confidence
        /\ scores.score = scores.total
        /\ scores.score \in 0 .. (100 * ScoreOne)

\* a scored palette whose mean CIELab distance is above 100 (the diversity
\* is held at 1.0) and whose text contrast is below 4.5
C5_Witness ==
    /\ pc = "scored"
    /\ DiversityRaw(PaletteValues(palette)) > ScoreOne
    /\ scores.diversity = ScoreOne
    /\ scores.contrast < ScoreOne
    /\ scores.total > 0


(***************************************************************************)
(* Claims about extract_colors (checked under Spec).                       *)
(***************************************************************************)
\* two results of extract_colors agree: both raise, or both are palettes with
\* the same RGB for the same roles, the same method and the same score
SameResult(p, q) ==
    IF p = Raised \/ q = Raised THEN p = q
    ELSE /\ DOMAIN p.colors = DOMAIN q.colors
         /\ \A role \in DOMAIN p.colors : Rgb(p.colors[role]) = Rgb(q.colors[role])
         /\ p.extraction_method = q.extraction_method
         /\ p.quality_score = q.quality_score

CandidateColors(method, n) ==
    IF method = "colorthief"
    THEN IF Answer(Key("colorthief", n)) THEN LibraryColors("colorthief", n)
         ELSE IF Answer(Key("median_cut_full", n)) THEN LibraryColors("median_cut_full", n)
         ELSE << >>
    ELSE IF Answer(Key(method, n)) THEN LibraryColors(method, n) ELSE << >>

\* the candidate did not fail: it extracted colours from_colors accepts
CandidateOk(method, n) == Len(CandidateColors(method, n)) >= 3

AdaptiveTried == MethodOf(req) = "adaptive" /\ tried = 3

AdaptiveReturned == AdaptiveTried /\ pc \in {"extracted", "done"} /\ results # << >>

\* C6: the adaptive method tries KMEANS_LAB with 6, COLORTHIEF with 5 and
\* MEDIAN_CUT with 7 colours; a failing candidate is skipped; the colours
\* returned are those of the highest-quality candidate that did not fail,
\* the earliest on ties; so the quality_score of the adaptive result is at
\* least that of every candidate that did not fail.
C6_AdaptiveBest ==
    /\ AdaptiveTried =>
          /\ Known(Key("kmeans_lab", 6))
          /\ Known(Key("colorthief", 5))
          /\ Known(Key("median_cut", 7))
          /\ \A c \in {<< "kmeans_lab", 6 >>, << "colorthief", 5 >>, << "median_cut", 7 >>} :
                CandidateOk(c[1], c[2]) <=>
                    \E i \in 1 .. Len(results) :
                        /\ results[i].method = c[1]
                        /\ results[i].colors = CandidateColors(c[1], c[2])
          /\ Len(results) <= 3
          /\ \A i, j \in 1 .. Len(results) :
                (i < j) => (AlgIndex(results[i].method) = 0
                            \/ AlgIndex(results[j].method) = 2)
                           /\ results[i].method # results[j].method
    /\ AdaptiveReturned =>
          \E i \in 1 .. Len(results) :
              /\ colors = results[i].colors
              /\ \A j \in 1 .. Len(results) : results[j].quality <= results[i].quality
              /\ \A j \in 1 .. (i - 1) : results[j].quality < results[i].quality
    /\ (AdaptiveReturned /\ pc = "done") =>
          /\ IsPalette(palette)
          /\ \A j \in 1 .. Len(results) : palette.quality_score >= results[j].quality

\* an adaptive call that returned: one candidate failed, and of the other two
\* the later one has the strictly higher quality
C6_Witness ==
    /\ AdaptiveReturned /\ pc = "done"
    /\ Len(results) = 2
    /\ results[1].quality < results[2].quality
    /\ colors = results[2].colors
    /\ palette.quality_score = results[2].quality

ThiefRaised(n) == Known(Key("colorthief", n)) /\ ~Answer(Key("colorthief", n))

\* C7: when ColorThief raises, _extract_colorthief returns the median-cut
\* result for the same num_colors (and raises only if that median cut
\* raises); when all three adaptive candidates fail the adaptive result is
\* the median cut for 5 colours; a ColorThief failure alone never makes
\* extract_colors fail.
C7_Fallbacks ==
    /\ (MethodOf(req) = "colorthief" /\ pc \in {"extracted", "done"}
            /\ ThiefRaised(NumColorsOf(req))) =>
          IF Answer(Key("median_cut_full", NumColorsOf(req)))
          THEN /\ colors = LibraryColors("median_cut_full", NumColorsOf(req))
               /\ pc = "done" => (IsPalette(palette) <=> NumColorsOf(req) >= 3)
          ELSE palette = Raised
    /\ (AdaptiveTried /\ pc \in {"extracted", "done"} /\ results = << >>) =>
          IF Answer(Key("median_cut", 5))
          THEN /\ colors = LibraryColors("median_cut", 5)
               /\ pc = "done" => IsPalette(palette)
          ELSE palette = Raised
    /\ (AdaptiveTried /\ pc = "done" /\ palette = Raised) =>
          /\ results = << >>
          /\ ~Answer(Key("median_cut", 5))

\* extract_colors with COLORTHIEF returned a palette although ColorThief raised
C7_Witness ==
    /\ MethodOf(req) = "colorthief" /\ pc = "done"
    /\ ThiefRaised(NumColorsOf(req))
    /\ IsPalette(palette)
    /\ colors = LibraryColors("median_cut_full", NumColorsOf(req))


(***************************************************************************)
(* Claims about the adaptive method and the dict of a palette (checked     *)
(* under Spec).                                                            *)
(***************************************************************************)
NativeTypes == {"str", "int", "float", "bool", "NoneType"}

Loadable == Known(Key("load", 0)) /\ Answer(Key("load", 0))

\* every value of the dict d = to_dict() is of a native type
AllNative(d) ==
    /\ \A role \in DOMAIN d.colors :
          /\ d.colors[role].hex \in NativeTypes
          /\ d.colors[role].confidence \in NativeTypes
          /\ \A k \in 1 .. 3 : /\ d.colors[role].rgb[k] \in NativeTypes
                               /\ d.colors[role].hsl[k] \in NativeTypes
    /\ \A key \in DOMAIN d.metadata \ {"contrast_ratios"} : d.metadata[key] \in NativeTypes
    /\ \A pair \in DOMAIN d.metadata.contrast_ratios :
          d.metadata.contrast_ratios[pair] \in NativeTypes

\* C12 as stated: for a loadable image extract_colors(image,
\* method='adaptive') returns a palette instead of raising, the palette's
\* extraction_method is 'adaptive', and every value of palette.to_dict() is
\* of a native type (str, int, float, bool, None, in lists, tuples and
\* dicts), never a numpy scalar.
C12_AsStated ==
    (pc = "done" /\ MethodOf(req) = "adaptive" /\ Loadable) =>
        /\ IsPalette(palette)
        /\ palette.extraction_method = "adaptive"
        /\ AllNative(ToDict(palette))


\* C14 as stated: whatever method and num_colors are passed, the number of
\* colours extract_colors extracts from the image lies between min_colors
\* and max_colors.
C14_AsStated ==
    pc = "extracted" => (MinColors <= Len(colors) /\ Len(colors) <= MaxColors)

\* C15 as stated: with num_colors omitted extract_colors extracts the
\* default number of colours of the chosen method (6 for kmeans_lab,
\* kmeans_rgb and adaptive, 8 for median_cut, 5 for colorthief); with
\* num_colors given it extracts exactly that many, for every method.
C15_AsStated ==
    pc = "extracted" =>
        Len(colors) =
            IF req.num_colors # 0 THEN req.num_colors
            ELSE CASE MethodOf(req) \in {"kmeans_lab", "kmeans_rgb", "adaptive"} -> 6
                   [] MethodOf(req) = "median_cut" -> 8
                   [] MethodOf(req) = "colorthief" -> 5


(***************************************************************************)
(* Claims about the ThemeApplier (checked under SpecTheme).  A turn is one *)
(* pass of the loop of apply_theme: the result it put into the dict, with  *)
(* what the pass found (existed, before) and did (saved, copied).          *)
(***************************************************************************)
InApply == pc \in {"loop", "generate", "write", "reload", "returned"} /\ call.op = "apply_theme"

InRestore == pc \in {"restoring", "returned"} /\ call.op = "restore_backups"

Turns == 1 .. Len(turns)

\* the turns of configured applications
Applied == {i \in Turns : turns[i].result.app_name \in Apps}

FirstTurn(i) == \A j \in 1 .. (i - 1) : turns[j].result.app_name # turns[i].result.app_name

\* no later pass of the loop is for the same name, and none is under way
LastTurn(i) ==
    /\ pc \in {"loop", "returned"}
    /\ \A j \in (i + 1) .. Len(turns) : turns[j].result.app_name # turns[i].result.app_name

\* C8 as stated: backup_created is True exactly when create_backup was True
\* and the output file existed when apply_theme started applying to the
\* application, and that backup holds the content the file had before this
\* apply_theme wrote to it; with create_backup=False the backup directory is
\* left as it was.
C8_AsStated ==
    InApply =>
        /\ \A i \in Applied :
              /\ turns[i].result.backup_created
                    <=> (call.arg.create_backup /\ turns[i].existed)
              /\ turns[i].result.backup_created =>
                    turns[i].saved = Content(snapshot.files[turns[i].result.app_name])
        /\ ~call.arg.create_backup => backups = snapshot.backups

\* C8, amended: backup_created is True exactly when create_backup was True,
\* the output file existed when apply_theme started applying to the
\* application, and the copy into the backup directory did not raise; when
\* the copy raises the application's result is success=False with
\* backup_created=False and its output file is not written.  The backup
\* holds the content the file had when apply_theme started applying to the
\* application: the content before this apply_theme wrote to it, unless the
\* call listed the name before.  With create_backup=False the backup
\* directory is left as it was.
C8_BackupCreated ==
    InApply =>
        /\ \A i \in Applied :
              /\ turns[i].result.backup_created
                    <=> (call.arg.create_backup /\ turns[i].existed /\ turns[i].copied)
              /\ (call.arg.create_backup /\ turns[i].existed /\ ~turns[i].copied) =>
                    /\ ~turns[i].result.success
                    /\ LastTurn(i) =>
                          Content(files[turns[i].result.app_name]) = turns[i].before
              /\ turns[i].result.backup_created =>
                    /\ turns[i].saved = turns[i].before
                    /\ FirstTurn(i) =>
                          turns[i].saved = Content(snapshot.files[turns[i].result.app_name])
                    /\ LastTurn(i) =>
                          \E b \in backups :
                              /\ b.app = turns[i].result.app_name
                              /\ Content(b) = turns[i].saved
        /\ ~call.arg.create_backup => backups = snapshot.backups

\* an apply_theme that backed a file up and then wrote another content
C8_Witness ==
    /\ InApply
    /\ \E i \in Applied :
          /\ turns[i].result.backup_created
          /\ turns[i].result.success
          /\ Content(files[turns[i].result.app_name]) # turns[i].saved
          /\ \E b \in backups : b.app = turns[i].result.app_name /\ Content(b) = turns[i].saved

Ran(i) == \E k \in 1 .. Len(commands) : commands[k] = i

HasCommand(i) == Applications[turns[i].result.app_name].reload_command # NoneStr

\* C9: with reload_applications=False no reload command is run and every
\* result has reloaded=False.  With reload_applications=True a reload
\* command runs only once the output file is completely written, and never
\* for an application whose content generation or file write failed; a
\* command that times out or raises leaves success=True and reloaded=False;
\* an application without reload command that was written gets
\* reloaded=True without any command being run.
C9_Reload ==
    InApply =>
        /\ ~call.arg.reload_applications =>
              /\ commands = << >>
              /\ \A i \in Turns : ~turns[i].result.reloaded
        /\ pc = "reload" =>
              Content(files[cur.app]) = Rendered(cur.app, call.arg.palette)
        /\ \A i \in Turns :
              /\ Ran(i) => /\ i \in Applied
                           /\ HasCommand(i)
                           /\ turns[i].result.success
                           /\ turns[i].result.error = NoneStr
              /\ ~turns[i].result.success => (~Ran(i) /\ ~turns[i].result.reloaded)
              /\ turns[i].result.reload_output \in {"Reload command timed out", "raised"} =>
                    /\ Ran(i)
                    /\ turns[i].result.success
                    /\ ~turns[i].result.reloaded
              /\ (call.arg.reload_applications /\ turns[i].result.success /\ ~HasCommand(i)) =>
                    /\ turns[i].result.reloaded
                    /\ ~Ran(i)
              /\ turns[i].result.reloaded => (HasCommand(i) <=> Ran(i))

\* one apply_theme reloaded an application that has no reload command, and
\* ran a reload command that timed out
C9_Witness ==
    /\ InApply
    /\ \E i, j \in Applied :
          /\ ~HasCommand(i) /\ turns[i].result.reloaded /\ ~Ran(i)
          /\ HasCommand(j) /\ Ran(j) /\ turns[j].result.success
          /\ turns[j].result.reload_output = "Reload command timed out"
          /\ ~turns[j].result.reloaded

HasBackup(app) == \E b \in backups : b.app = app

Requested == NamesOf(call.arg)

\* the pass ended in the except clause of apply_theme
Caught(i) == turns[i].result.error = "exception"

\* C11: when apply_theme returns, the loop has made one pass for every
\* requested name, in the requested order, and the dict holds one result for
\* each requested name and for no other; the result of a name that is not
\* configured has success False and the error 'Unknown application: <name>';
\* the result of a pass that raised has success False, an empty output path
\* and the text of the exception as its error; a result has success True
\* exactly when it carries no error.
C11_OneResultEach ==
    (pc = "returned" /\ call.op = "apply_theme") =>
        /\ Len(turns) = Len(Requested)
        /\ \A i \in Turns : turns[i].result.app_name = Requested[i]
        /\ DOMAIN ResultsDict = {Requested[i] : i \in 1 .. Len(Requested)}
        /\ \A name \in DOMAIN ResultsDict :
              /\ ResultsDict[name].app_name = name
              /\ name \notin Apps =>
                    /\ ~ResultsDict[name].success
                    /\ ResultsDict[name].error = "Unknown application: " \o name
                    /\ ResultsDict[name].output_path = ""
        /\ \A i \in Turns :
              /\ Caught(i) => ~turns[i].result.success /\ turns[i].result.output_path = ""
              /\ turns[i].result.success <=> turns[i].result.error = NoneStr

\* a call has returned in which one pass raised and a later pass of another
\* name succeeded
C11_Witness ==
    /\ pc = "returned" /\ call.op = "apply_theme"
    /\ \E i \in Turns : \E j \in (i + 1) .. Len(turns) :
          /\ Caught(i)
          /\ turns[j].result.app_name # turns[i].result.app_name
          /\ turns[j].result.success

\* the output file of app holds what an apply_theme with palette p wrote
WrittenWith(app, p) == files[app].by \notin {"absent", "user", "partial"} /\ files[app].palette = p

\* C13 as stated: for every configured application preview_theme(palette,
\* app) returns the content apply_theme would write to the application's
\* output file for the same palette (and the content an apply_theme with that
\* palette did write, where the file still holds it), and it creates or
\* modifies no output file, backup or record; for a name that is not
\* configured it raises ValueError.
C13_AsStated ==
    /\ [](  (pc = "returned" /\ call.op = "preview_theme") =>
              IF call.arg.app \in Apps
              THEN /\ cur.rendered = Rendered(call.arg.app, call.arg.palette)
                   /\ WrittenWith(call.arg.app, call.arg.palette) =>
                         cur.rendered = Content(files[call.arg.app])
              ELSE cur.rendered.by = "ValueError: Unknown application: " \o call.arg.app)
    /\ [][PreviewTheme => UNCHANGED << files, backups, record >>]_vars


\* the applications named in L, the list apply_theme was called with (every
\* configured application where it was called without one)
Named == IF call.arg.given THEN {call.arg.names[i] : i \in 1 .. Len(call.arg.names)}
         ELSE Apps

\* C20: while apply_theme(palette, applications=L) runs and when it has
\* returned, the output file of every configured application that is not in
\* L is as it was when the call began, and so is every backup of such an
\* application: only output files of applications in L and backups of them
\* are created or modified, besides last_application.json; and the save of
\* last_application.json, failing or not, changes no result, no output file
\* and no backup, and the call returns.
C20_Frame ==
    /\ [](InApply =>
            /\ \A app \in Apps \ Named : files[app] = snapshot.files[app]
            /\ {b \in backups : b.app \notin Named}
                    = {b \in snapshot.backups : b.app \notin Named})
    /\ [][(InApply /\ pc = "loop" /\ call.todo = << >>) =>
            /\ pc' = "returned"
            /\ turns' = turns
            /\ files' = files
            /\ backups' = backups]_vars

\* apply_theme for swaync alone has returned its result: it backed up and
\* rewrote the file of swaync, the file of alacritty is the user's still, and
\* no last_application.json could be saved
C20_Witness ==
    /\ pc = "returned" /\ call.op = "apply_theme"
    /\ call.arg.given /\ call.arg.names = << "swaync" >>
    /\ turns[1].result.success /\ turns[1].result.backup_created
    /\ files["swaync"] # snapshot.files["swaync"]
    /\ files["alacritty"] = UserFile
    /\ backups # snapshot.backups
    /\ ~record

(***************************************************************************)
(* Claims about one SemanticColor (checked under SpecColor).  Luminances   *)
(* are x 10^6 and contrast ratios x 10^3.                                  *)
(***************************************************************************)
Black == << 0, 0, 0 >>

White == << 255, 255, 255 >>

\* C16: a.contrast_ratio(b) equals b.contrast_ratio(a) and lies in
\* [1.0, 21.0]; it is 1.0 between colours of equal luminance and 21.0 between
\* black and white; the luminance lies in [0.0, 1.0], and is 0.0 for black
\* and 1.0 for white.
C16_ContrastRatio ==
    pc = "measured" =>
        /\ scores.ab = scores.ba
        /\ 1000 <= scores.ab /\ scores.ab <= 21000
        /\ scores.l1 = scores.l2 => scores.ab = 1000
        /\ {colors[1], scores.other} = {Black, White} => scores.ab = 21000
        /\ 0 <= scores.l1 /\ scores.l1 <= 1000000
        /\ colors[1] = Black => scores.l1 = 0
        /\ colors[1] = White => scores.l1 = 1000000

\* the contrast of white against black and of black against white was taken
C16_Witness ==
    /\ pc = "measured"
    /\ colors[1] = White /\ scores.other = Black
    /\ scores.ab = 21000 /\ scores.ba = 21000

\* C17: from_hex(SemanticColor(r, g, b, role).hex) has the same r, g and b,
\* with the leading '#' or without it; a text of three digits parses as the
\* text with every digit doubled; a text whose length after the '#' is
\* removed is not 3, 6 or 8 raises ValueError.
C17_HexRoundTrip ==
    pc = "parsed" =>
        /\ palette.text \in {assign.hex, Tail(assign.hex)} =>
              /\ palette.color # Raised
              /\ Rgb(palette.color) = colors[1]
        /\ Len(Lstrip(palette.text)) = 3 =>
              palette.color = FromHex(<< Lstrip(palette.text)[1], Lstrip(palette.text)[1],
                                         Lstrip(palette.text)[2], Lstrip(palette.text)[2],
                                         Lstrip(palette.text)[3], Lstrip(palette.text)[3] >>)
        /\ Len(Lstrip(palette.text)) \notin {3, 6, 8} <=> palette.color = Raised

\* the hex of a colour with a channel below 16 was parsed without its '#'
C17_Witness ==
    /\ pc = "parsed"
    /\ palette.text = Tail(assign.hex)
    /\ colors[1][1] = 15
    /\ Rgb(palette.color) = colors[1]

\* C18 as stated: from_hex(c.hex_with_alpha) has the alpha of c, and the r, g
\* and b of c.
C18_AsStated ==
    (pc = "parsed" /\ palette.text = assign.hex_with_alpha) =>
        /\ palette.color # Raised
        /\ Rgb(palette.color) = colors[1]
        /\ palette.color.alpha = given.alpha


(***************************************************************************)
(* Claims about safe_write_file (checked under SpecFile).                  *)
(***************************************************************************)
\* the call raised inside the try block: in open, in write or in the move
WriteFailed == pc = "raised" /\ cur.failed \in {"open", "write", "move"}

C21_AsStated ==
    (FromColorsDone /\ Len(colors) >= 3) =>
        /\ IsPalette(palette)
        /\ "surface" \in DOMAIN palette.colors
        /\ "secondary" \in DOMAIN palette.colors <=> Len(colors) >= 4
        /\ "accent" \in DOMAIN palette.colors <=> Len(colors) >= 5

=============================================================================
